---- MODULE Spec2Model ----
(***************************************************************************)
(* Model of src/General/Database.cpp (SLADE program database):             *)
(*   - database::Context: two connections, a statement cache               *)
(*   - database::Transaction: begin-if-none-active guard                   *)
(*   - the thread context registry (thread_contexts, mutex_thread_contexts)*)
(*     and database::global()                                              *)
(***************************************************************************)
EXTENDS Integers, Sequences, FiniteSets, TLC

\* ------------------------------------------------------------------ bounds
NumWorkers    == 2      \* worker threads beside the main thread
NumContexts   == 2      \* contexts constructed at run time (beside db_global)
MaxOpens      == 2      \* calls of Context::open that reach the engine
MaxStatements == 3      \* statement handles the engine hands out
MaxGuards     == 3      \* Transaction objects constructed
MaxRegistry   == 2      \* entries thread_contexts may hold
MaxRows       == 2      \* rows of the table rowIdExists looks into
IdBits        == 5      \* width of the id rowIdExists takes (int64_t in the code)

\* ------------------------------------------------------- program constants
MainThread == 0         \* app::mainThreadId()
db_global  == 0         \* the static Context db_global
Null       == 0         \* nullptr (connection / statement handle)

Threads  == 0..NumWorkers
Workers  == 1..NumWorkers
Contexts == 0..NumContexts
Ids      == {"q1", "q2"}            \* cache keys
Paths    == {"a.db", "b.db"}        \* database files
Sqls     == {"s1", "s2", "bad"}     \* "bad" does not compile
NoPath   == ""                      \* the empty string

VARIABLES
    ctx,              \* [Contexts -> context record]: the Context objects
    next_conn,        \* next connection handle of the engine
    next_stmt,        \* next statement handle of the engine
    thread_contexts,  \* vector<Context*> thread_contexts
    mutex,            \* std::shared_mutex mutex_thread_contexts
    pc,               \* [Threads -> position inside a registry call]
    local,            \* [Threads -> locals of the running call]
    ret,              \* what the last step returned / did
    autocommit,       \* [connection handle -> BOOLEAN]: sqlite3_get_autocommit
    guards,           \* [1..MaxGuards -> Transaction record]
    crashed,          \* the process dereferenced a null / freed pointer
    reg,              \* history: [Threads -> the context the thread registered last,
                      \*           whether it has deregistered since, and the registry
                      \*           as its running deregisterThreadContexts found it]
    got,              \* history: [Threads -> the context global() handed it last]
    table_rows        \* the id column of the rows of the table in the database file

\* The program's state; the actions below say nothing about reg, got and
\* table_rows, which each specification maintains beside them.
vars == <<ctx, next_conn, next_stmt, thread_contexts, mutex, pc, local, ret,
          autocommit, guards, crashed, reg, got, table_rows>>

\* ------------------------------------------------------- Context objects
EmptyCache == [i \in {} |-> 0]

\* A Context that has not been constructed yet / whose storage is gone.
NoContext(life) ==
    [life |-> life, thread_id_ |-> MainThread, connection_ro_ |-> Null,
     connection_rw_ |-> Null, file_path_ |-> NoPath, cached_queries_ |-> EmptyCache]

\* Context::Context before it opens anything: thread_id_ is the constructing thread.
NewContext(t) == [NoContext("alive") EXCEPT !.thread_id_ = t]

\* isForThisThread that takes every context for the caller's (mutant)
isForAnyThread(cx, t) == TRUE

\* Context::isForThisThread, called from thread t
isForThisThread(cx, t) == cx.thread_id_ = t

\* tryReset that leaves the statement as it is (mutant)
tryResetNothing(st) == st

\* SQLite::Statement::tryReset: the statement is ready to be executed again
tryReset(st) == [st EXCEPT !.executed = FALSE]

\* Context::close with the statements kept in the cache (mutant)
closeKeepCache(cx, fault) ==
    IF cx.connection_ro_ = Null
    THEN [cx |-> cx, ok |-> TRUE]
    ELSE IF fault = "ro"
         THEN [cx |-> [cx EXCEPT !.connection_ro_ = Null], ok |-> FALSE]
         ELSE IF fault = "rw"
              THEN [cx |-> [cx EXCEPT !.connection_ro_ = Null, !.connection_rw_ = Null],
                    ok |-> FALSE]
              ELSE [cx |-> [cx EXCEPT !.connection_ro_ = Null, !.connection_rw_ = Null,
                                      !.file_path_ = NoPath],
                    ok |-> TRUE]

\* Context::close on the context record cx. fault names the connection whose
\* release throws ("none", "ro", "rw"). unique_ptr::operator=(nullptr) stores
\* the null pointer first and runs the deleter afterwards, so the member is
\* already null when the deleter throws.
close(cx, fault) ==
    IF cx.connection_ro_ = Null
    THEN [cx |-> cx, ok |-> TRUE]
    ELSE LET c1 == [cx EXCEPT !.cached_queries_ = EmptyCache]
             c2 == [c1 EXCEPT !.connection_ro_ = Null]
             c3 == [c2 EXCEPT !.connection_rw_ = Null]
         IN  IF fault = "ro" THEN [cx |-> c2, ok |-> FALSE]
             ELSE IF fault = "rw" THEN [cx |-> c3, ok |-> FALSE]
             ELSE [cx |-> [c3 EXCEPT !.file_path_ = NoPath], ok |-> TRUE]

\* The release faults close can meet on cx: a null member releases nothing.
CloseFaults(cx) ==
    {"none"} \cup (IF cx.connection_ro_ # Null THEN {"ro"} ELSE {})
             \cup (IF cx.connection_ro_ # Null /\ cx.connection_rw_ # Null
                   THEN {"rw"} ELSE {})

\* Context::open that goes on to open after a close that failed (mutant)
openAfterFailedClose(cx, path, cfault, ofault, conn) ==
    LET r  == close(cx, cfault)
        c1 == [r.cx EXCEPT !.file_path_ = path]
        c2 == [c1 EXCEPT !.connection_ro_ = conn]
        c3 == [c2 EXCEPT !.connection_rw_ = conn + 1]
    IN  IF ofault = "ro" THEN [cx |-> c1, result |-> "throw", logged |-> ~r.ok]
        ELSE IF ofault = "rw" THEN [cx |-> c2, result |-> "throw", logged |-> ~r.ok]
        ELSE [cx |-> c3, result |-> "true", logged |-> ~r.ok]

\* Context::open on the context record cx. cfault is the fault of the close
\* inside, ofault the connection the engine fails to open ("none","ro","rw"):
\* make_unique<SQLite::Database> throws and the exception leaves open.
\* logged: the close inside logged its error.
open(cx, path, cfault, ofault, conn) ==
    LET r  == close(cx, cfault)
        c1 == [r.cx EXCEPT !.file_path_ = path]
        c2 == [c1 EXCEPT !.connection_ro_ = conn]
        c3 == [c2 EXCEPT !.connection_rw_ = conn + 1]
    IN  IF ~r.ok THEN [cx |-> r.cx, result |-> "false", logged |-> TRUE]
        ELSE IF ofault = "ro" THEN [cx |-> c1, result |-> "throw", logged |-> FALSE]
        ELSE IF ofault = "rw" THEN [cx |-> c2, result |-> "throw", logged |-> FALSE]
        ELSE [cx |-> c3, result |-> "true", logged |-> FALSE]


\* ------------------------------------------------------------ bookkeeping
\* What the last step did: the call, its thread, context and cache key, how it
\* ended (result), the handle or count it returned (val), whether a warning or
\* an error was logged (warn), and the commands it sent to the engine (sent).
\* arg holds the sql and writes arguments of a cacheQuery call.
Ret(op, t, c, id, result, val, warn, sent) ==
    [op |-> op, t |-> t, c |-> c, id |-> id, result |-> result, val |-> val,
     warn |-> warn, sent |-> sent, arg |-> <<>>]

Step == Ret("step", MainThread, db_global, "", "none", Null, FALSE, <<>>)

\* Locals of the registry call a thread is in: loop index, the end of the
\* range-for, the context argument / this.
NoLocal == [idx |-> 0, end |-> 0, this |-> db_global]

\* A step that is no call the histories follow.
NoHistory == UNCHANGED <<reg, got, table_rows>>

\* A Transaction that has not been constructed.
NoGuard == [state |-> "none", connection_ |-> Null, began |-> FALSE]

\* ------------------------------------------------------------------- Init
\* After static initialisation: db_global is constructed on the main thread
\* with an empty path (closed), the registry is empty.
Init ==
    /\ ctx = [c \in Contexts |-> IF c = db_global THEN NewContext(MainThread)
                                 ELSE NoContext("unborn")]
    /\ next_conn = 1
    /\ next_stmt = 1
    /\ thread_contexts = <<>>
    /\ mutex = [writer |-> {}, readers |-> {}]
    /\ pc = [t \in Threads |-> "idle"]
    /\ local = [t \in Threads |-> NoLocal]
    /\ ret = Step
    /\ autocommit = [k \in 1..(2 * MaxOpens) |-> TRUE]
    /\ guards = [g \in 1..MaxGuards |-> NoGuard]
    /\ crashed = FALSE
    /\ reg = [t \in Threads |-> [last |-> {}, dereg |-> FALSE, snap |-> <<>>]]
    /\ got = [t \in Threads |-> {}]
    /\ table_rows = <<>>

\* After database::init(): db_global has been opened on the program database.
InitOpen ==
    /\ ctx = [c \in Contexts |->
                IF c = db_global
                THEN open(NewContext(MainThread), "a.db", "none", "none", 1).cx
                ELSE NoContext("unborn")]
    /\ next_conn = 3
    /\ next_stmt = 1
    /\ thread_contexts = <<>>
    /\ mutex = [writer |-> {}, readers |-> {}]
    /\ pc = [t \in Threads |-> "idle"]
    /\ local = [t \in Threads |-> NoLocal]
    /\ ret = Step
    /\ autocommit = [k \in 1..(2 * MaxOpens) |-> TRUE]
    /\ guards = [g \in 1..MaxGuards |-> NoGuard]
    /\ crashed = FALSE
    /\ reg = [t \in Threads |-> [last |-> {}, dereg |-> FALSE, snap |-> <<>>]]
    /\ got = [t \in Threads |-> {}]
    /\ table_rows = <<>>

\* -------------------------------------------------- Context member calls
\* Each is one call of thread t on the live context c.
CanCall(t, c) == ~crashed /\ pc[t] = "idle" /\ ctx[c].life = "alive"

Context_open(t, c, path, cfault, ofault) ==
    /\ CanCall(t, c)
    /\ next_conn < 2 * MaxOpens
    /\ cfault \in CloseFaults(ctx[c])
    /\ LET r == open(ctx[c], path, cfault, ofault, next_conn)
       IN  /\ ctx' = [ctx EXCEPT ![c] = r.cx]
           /\ next_conn' = IF r.result = "false" THEN next_conn ELSE next_conn + 2
           /\ ret' = Ret("open", t, c, "", r.result, Null, r.logged, <<>>)
    /\ UNCHANGED <<next_stmt, thread_contexts, mutex, pc, local, autocommit, guards, crashed>>

Context_close(t, c, fault) ==
    /\ CanCall(t, c)
    /\ fault \in CloseFaults(ctx[c])
    /\ LET r == close(ctx[c], fault)
       IN  /\ ctx' = [ctx EXCEPT ![c] = r.cx]
           /\ ret' = Ret("close", t, c, "", IF r.ok THEN "true" ELSE "false", Null,
                         ~r.ok, <<>>)
    /\ UNCHANGED <<next_conn, next_stmt, thread_contexts, mutex, pc, local, autocommit,
                   guards, crashed>>

Context_cachedQuery(t, c, id) ==
    /\ CanCall(t, c)
    /\ IF id \in DOMAIN ctx[c].cached_queries_
       THEN /\ ctx' = [ctx EXCEPT ![c].cached_queries_[id] = tryReset(@)]
            /\ ret' = Ret("cachedQuery", t, c, id, "handle",
                          ctx[c].cached_queries_[id].handle, FALSE, <<>>)
       ELSE /\ ctx' = ctx
            /\ ret' = Ret("cachedQuery", t, c, id, "none", Null, FALSE, <<>>)
    /\ UNCHANGED <<next_conn, next_stmt, thread_contexts, mutex, pc, local, autocommit,
                   guards, crashed>>

\* The connection that is always the read-only one (mutant)
statementDbRo(cx, writes) == cx.connection_ro_

\* writes ? *connection_rw_ : *connection_ro_
statementDb(cx, writes) == IF writes THEN cx.connection_rw_ ELSE cx.connection_ro_

\* cacheQuery that puts the entry into the cache before it compiles (mutant)
Context_cacheQueryStoreFirst(t, c, id, sql, writes) ==
    /\ CanCall(t, c)
    /\ id \in DOMAIN ctx[c].cached_queries_ \/ next_stmt <= MaxStatements
    /\ LET cx == ctx[c]
           db == statementDb(cx, writes)
           R(result, val) == [Ret("cacheQuery", t, c, id, result, val, FALSE, <<>>)
                                EXCEPT !.arg = <<sql, writes>>]
       IN  IF id \in DOMAIN cx.cached_queries_
           THEN \* existing cached query: reset and return it
                /\ ctx' = [ctx EXCEPT ![c].cached_queries_[id] = tryReset(@)]
                /\ ret' = R("handle", cx.cached_queries_[id].handle)
                /\ UNCHANGED <<next_stmt, crashed>>
           ELSE IF cx.connection_ro_ = Null
           THEN \* not connected
                /\ ret' = R("none", Null)
                /\ UNCHANGED <<ctx, next_stmt, crashed>>
           ELSE IF db = Null
           THEN \* *connection_rw_ of a null pointer
                /\ crashed' = TRUE
                /\ ret' = R("crash", Null)
                /\ UNCHANGED <<ctx, next_stmt>>
           ELSE IF sql = "bad"
           THEN \* the entry is there when SQLite::Statement's constructor throws
                /\ ctx' = [ctx EXCEPT ![c].cached_queries_ =
                             [i \in DOMAIN @ \cup {id} |->
                                IF i = id
                                THEN [handle |-> Null, db |-> db, sql |-> sql,
                                      executed |-> FALSE, creator |-> t]
                                ELSE @[i]]]
                /\ ret' = R("throw", Null)
                /\ UNCHANGED <<next_stmt, crashed>>
           ELSE /\ ctx' = [ctx EXCEPT ![c].cached_queries_ =
                             [i \in DOMAIN @ \cup {id} |->
                                IF i = id
                                THEN [handle |-> next_stmt, db |-> db, sql |-> sql,
                                      executed |-> FALSE, creator |-> t]
                                ELSE @[i]]]
                /\ next_stmt' = next_stmt + 1
                /\ ret' = R("handle", next_stmt)
                /\ UNCHANGED crashed
    /\ UNCHANGED <<next_conn, thread_contexts, mutex, pc, local, autocommit, guards>>

\* Context::cacheQuery
Context_cacheQuery(t, c, id, sql, writes) ==
    /\ CanCall(t, c)
    /\ id \in DOMAIN ctx[c].cached_queries_ \/ next_stmt <= MaxStatements
    /\ LET cx == ctx[c]
           db == statementDb(cx, writes)
           R(result, val) == [Ret("cacheQuery", t, c, id, result, val, FALSE, <<>>)
                                EXCEPT !.arg = <<sql, writes>>]
       IN  IF id \in DOMAIN cx.cached_queries_
           THEN \* existing cached query: reset and return it
                /\ ctx' = [ctx EXCEPT ![c].cached_queries_[id] = tryReset(@)]
                /\ ret' = R("handle", cx.cached_queries_[id].handle)
                /\ UNCHANGED <<next_stmt, crashed>>
           ELSE IF cx.connection_ro_ = Null
           THEN \* not connected
                /\ ret' = R("none", Null)
                /\ UNCHANGED <<ctx, next_stmt, crashed>>
           ELSE IF db = Null
           THEN \* *connection_rw_ of a null pointer
                /\ crashed' = TRUE
                /\ ret' = R("crash", Null)
                /\ UNCHANGED <<ctx, next_stmt>>
           ELSE IF sql = "bad"
           THEN \* SQLite::Statement's constructor throws, nothing is stored
                /\ ret' = R("throw", Null)
                /\ UNCHANGED <<ctx, next_stmt, crashed>>
           ELSE /\ ctx' = [ctx EXCEPT ![c].cached_queries_ =
                             [i \in DOMAIN @ \cup {id} |->
                                IF i = id
                                THEN [handle |-> next_stmt, db |-> db, sql |-> sql,
                                      executed |-> FALSE, creator |-> t]
                                ELSE @[i]]]
                /\ next_stmt' = next_stmt + 1
                /\ ret' = R("handle", next_stmt)
                /\ UNCHANGED crashed
    /\ UNCHANGED <<next_conn, thread_contexts, mutex, pc, local, autocommit, guards>>

\* The caller runs the cached statement id (SQLite::Statement::executeStep).
Statement_executeStep(t, c, id) ==
    /\ CanCall(t, c)
    /\ id \in DOMAIN ctx[c].cached_queries_
    /\ ctx' = [ctx EXCEPT ![c].cached_queries_[id].executed = TRUE]
    /\ ret' = Ret("executeStep", t, c, id, "handle", ctx[c].cached_queries_[id].handle,
                  FALSE, <<>>)
    /\ UNCHANGED <<next_conn, next_stmt, thread_contexts, mutex, pc, local, autocommit,
                   guards, crashed>>

\* Context::exec that runs the statement without looking at connection_rw_
\* (mutant)
Context_execUnchecked(t, c, sql, rows) ==
    /\ CanCall(t, c)
    /\ ret' = IF sql = "bad"
              THEN Ret("exec", t, c, "", "throw", 0, FALSE, <<sql>>)
              ELSE Ret("exec", t, c, "", "count", rows, FALSE, <<sql>>)
    /\ UNCHANGED <<ctx, next_conn, next_stmt, thread_contexts, mutex, pc, local,
                   autocommit, guards, crashed>>

\* Context::exec: rows is the count the engine reports for the statement.
Context_exec(t, c, sql, rows) ==
    /\ CanCall(t, c)
    /\ IF ctx[c].connection_rw_ # Null
       THEN ret' = IF sql = "bad"
                   THEN Ret("exec", t, c, "", "throw", 0, FALSE, <<sql>>)
                   ELSE Ret("exec", t, c, "", "count", rows, FALSE, <<sql>>)
       ELSE ret' = Ret("exec", t, c, "", "count", 0, FALSE, <<>>)
    /\ UNCHANGED <<ctx, next_conn, next_stmt, thread_contexts, mutex, pc, local,
                   autocommit, guards, crashed>>

\* --------------------------------------------------- Context::rowIdExists
\* The values an id takes: a two's complement integer of IdBits bits.
MinId    == -(2 ^ (IdBits - 1))
MaxId    == 2 ^ (IdBits - 1) - 1
IdValues == MinId..MaxId

\* What a row holds in the id column: NULL or an integer.
SqlNull   == [null |-> TRUE, int |-> 0]
SqlInt(n) == [null |-> FALSE, int |-> n]

\* The column values the tables are filled from, and the tables.
RowValues == {SqlNull} \cup {SqlInt(n) : n \in {MinId, -1, 0, 1, 10, MaxId}}
Tables    == UNION {[1..n -> RowValues] : n \in 0..MaxRows}

\* The decimal digits of a natural number, most significant first.
RECURSIVE Digits(_)
Digits(n) == IF n < 10 THEN <<n>> ELSE Append(Digits(n \div 10), n % 10)

\* The number a sequence of decimal digits denotes.
RECURSIVE Magnitude(_)
Magnitude(ds) ==
    IF ds = <<>> THEN 0
    ELSE 10 * Magnitude(SubSeq(ds, 1, Len(ds) - 1)) + ds[Len(ds)]

\* fmt::format that leaves the sign out (mutant)
formatUnsigned(id) == [neg |-> FALSE, digits |-> Digits(IF id < 0 THEN -id ELSE id)]

\* fmt::format("{}", id): the text of the id in the query, a sign and digits
format(id) == [neg |-> id < 0, digits |-> Digits(IF id < 0 THEN -id ELSE id)]

\* The value the engine reads the literal as: an integer while it fits the
\* integer type (a negated MaxId + 1 is MinId), a real number beyond.
literal(text) ==
    LET m == Magnitude(text.digits)
    IN  IF text.neg
        THEN [real |-> m > MaxId + 1, num |-> -m]
        ELSE [real |-> m > MaxId, num |-> m]

\* SELECT EXISTS(SELECT 1 FROM table WHERE id_col = literal): 1 or 0. NULL
\* equals nothing; an integer equals the literal when the numbers are equal.
selectExists(rows, lit) ==
    IF \E i \in 1..Len(rows) : ~rows[i].null /\ rows[i].int = lit.num THEN 1 ELSE 0

\* Context::rowIdExists on the table whose id column is table_rows.
Context_rowIdExists(t, c, id) ==
    /\ CanCall(t, c)
    /\ IF ctx[c].connection_ro_ = Null
       THEN \* connection_ro_->execAndGet of a null pointer
            /\ crashed' = TRUE
            /\ ret' = Ret("rowIdExists", t, c, "", "crash", id, FALSE, <<>>)
       ELSE /\ ret' = Ret("rowIdExists", t, c, "",
                          IF selectExists(table_rows, literal(format(id))) > 0
                          THEN "true" ELSE "false",
                          id, FALSE, <<>>)
            /\ UNCHANGED crashed
    /\ UNCHANGED <<ctx, next_conn, next_stmt, thread_contexts, mutex, pc, local,
                   autocommit, guards>>

\* ------------------------------------------ construction and destruction
Unborn == {c \in Contexts : ctx[c].life = "unborn"}

\* The live contexts that were constructed on thread t.
Own(t) == {c \in Contexts : ctx[c].life = "alive" /\ ctx[c].thread_id_ = t}

\* Context::Context(file_path) on thread t; the object takes the first free
\* slot c. An exception of open leaves the constructor: no object exists.
Context_Context(t, c, path, ofault) ==
    /\ ~crashed /\ pc[t] = "idle"
    /\ c \in Unborn /\ \A d \in Unborn : c <= d
    /\ IF path = NoPath
       THEN /\ ofault = "none"
            /\ ctx' = [ctx EXCEPT ![c] = NewContext(t)]
            /\ ret' = Ret("Context", t, c, "", "true", Null, FALSE, <<>>)
            /\ UNCHANGED next_conn
       ELSE /\ next_conn < 2 * MaxOpens
            /\ LET r == open(NewContext(t), path, "none", ofault, next_conn)
               IN  IF r.result = "true"
                   THEN /\ ctx' = [ctx EXCEPT ![c] = r.cx]
                                    /\ ret' = Ret("Context", t, c, "", "true", Null, FALSE, <<>>)
                   ELSE /\ UNCHANGED ctx
                        /\ ret' = Ret("Context", t, c, "", "throw", Null, FALSE, <<>>)
            /\ next_conn' = next_conn + 2
    /\ UNCHANGED <<next_stmt, thread_contexts, mutex, pc, local, autocommit, guards, crashed>>

\* erase that removes everything from position i on (mutant)
eraseFrom(v, i) == SubSeq(v, 1, i - 1)

\* thread_contexts.erase(thread_contexts.begin() + i), i counted from 1
erase(v, i) == [k \in 1..(Len(v) - 1) |-> IF k < i THEN v[k] ELSE v[k + 1]]

\* What thread_contexts[i] reads. Inside the vector it is the element; a loop
\* that kept an index or an end from before an unlocked erase reads a slot
\* past the end, which holds a pointer stored there earlier.
ReadSlot(i) ==
    IF i <= Len(thread_contexts) THEN {thread_contexts[i]}
    ELSE {c \in Contexts : ctx[c].life # "unborn"}

\* What e->isForThisThread() returns on thread t: the comparison while the
\* object exists, either answer once its storage is gone.
SameThread(e, t) ==
    IF ctx[e].life \in {"alive", "destroying"} THEN {isForThisThread(ctx[e], t)}
    ELSE BOOLEAN

\* Context::~Context, first part: close(). The loop over thread_contexts
\* follows in ~Context_loop, with no lock taken.
Context_dtor(t, c, fault) ==
    /\ CanCall(t, c)
    /\ c # db_global
    /\ fault \in CloseFaults(ctx[c])
    /\ ctx' = [ctx EXCEPT ![c] = [close(ctx[c], fault).cx EXCEPT !.life = "destroying"]]
    /\ pc' = [pc EXCEPT ![t] = "x_loop"]
    /\ local' = [local EXCEPT ![t].idx = Len(thread_contexts), ![t].this = c]
    /\ ret' = Step
    /\ UNCHANGED <<next_conn, next_stmt, thread_contexts, mutex, autocommit, guards, crashed>>

\* One iteration of the destructor's loop (i counts down), or its end.
Context_dtor_loop(t) ==
    /\ ~crashed /\ pc[t] = "x_loop"
    /\ LET i == local[t].idx
           c == local[t].this
       IN  IF i < 1
           THEN /\ ctx' = [ctx EXCEPT ![c] = NoContext("destroyed")]
                /\ pc' = [pc EXCEPT ![t] = "idle"]
                /\ local' = [local EXCEPT ![t].idx = 0, ![t].this = db_global]
                /\ ret' = Ret("~Context", t, c, "", "none", Null, FALSE, <<>>)
                /\ UNCHANGED <<thread_contexts, crashed>>
           ELSE \E e \in ReadSlot(i) :
                IF e = c /\ i > Len(thread_contexts)
                THEN \* erase of an iterator past the end
                     /\ crashed' = TRUE
                     /\ ret' = Ret("~Context", t, c, "", "crash", Null, FALSE, <<>>)
                     /\ UNCHANGED <<ctx, pc, local, thread_contexts>>
                ELSE /\ thread_contexts' = IF e = c THEN erase(thread_contexts, i)
                                           ELSE thread_contexts
                     /\ local' = [local EXCEPT ![t].idx = i - 1]
                     /\ ret' = Step
                     /\ UNCHANGED <<ctx, pc, crashed>>
    /\ UNCHANGED <<next_conn, next_stmt, mutex, autocommit, guards>>

\* ------------------------------------------------- mutex_thread_contexts
\* std::unique_lock lock(mutex_thread_contexts) may be taken
\* (mutant: it never waits)
CanLockAlways(m) == TRUE

CanLock(m) == m.writer = {} /\ m.readers = {}

\* std::shared_lock lock(mutex_thread_contexts) may be taken
CanLockShared(m) == m.writer = {}

\* ------------------------------------------------------ database::global
\* global() that takes the lock and scans on the main thread too (mutant)
global_mainScans(t) ==
    /\ ~crashed /\ pc[t] = "idle"
    /\ t = MainThread
    /\ CanLockShared(mutex)
    /\ mutex' = [mutex EXCEPT !.readers = @ \cup {t}]
    /\ pc' = [pc EXCEPT ![t] = "g_scan"]
    /\ local' = [local EXCEPT ![t].idx = 1, ![t].end = Len(thread_contexts)]
    /\ ret' = Step
    /\ UNCHANGED <<ctx, next_conn, next_stmt, thread_contexts, autocommit, guards, crashed>>

\* On the main thread: db_global, no lock.
global_main(t) ==
    /\ ~crashed /\ pc[t] = "idle"
    /\ t = MainThread
    /\ ret' = Ret("global", t, db_global, "", "ctx", Null, FALSE, <<>>)
    /\ UNCHANGED <<ctx, next_conn, next_stmt, thread_contexts, mutex, pc, local,
                   autocommit, guards, crashed>>

\* On another thread: the call takes the shared lock (it waits until it
\* can); the range-for fixes its begin and end.
global_lock(t) ==
    /\ ~crashed /\ pc[t] = "idle"
    /\ t # MainThread
    /\ CanLockShared(mutex)
    /\ mutex' = [mutex EXCEPT !.readers = @ \cup {t}]
    /\ pc' = [pc EXCEPT ![t] = "g_scan"]
    /\ local' = [local EXCEPT ![t].idx = 1, ![t].end = Len(thread_contexts)]
    /\ ret' = Step
    /\ UNCHANGED <<ctx, next_conn, next_stmt, thread_contexts, autocommit, guards, crashed>>

\* global() whose return from inside the scan keeps the shared lock (mutant)
global_scanKeepsLock(t) ==
    /\ ~crashed /\ pc[t] = "g_scan"
    /\ LET i == local[t].idx
       IN  IF i > local[t].end
           THEN /\ mutex' = [mutex EXCEPT !.readers = @ \ {t}]
                /\ pc' = [pc EXCEPT ![t] = "idle"]
                /\ local' = [local EXCEPT ![t].idx = 0, ![t].end = 0]
                /\ ret' = Ret("global", t, db_global, "", "ctx", Null, TRUE, <<>>)
           ELSE \E e \in ReadSlot(i) : \E same \in SameThread(e, t) :
                IF same
                THEN /\ mutex' = mutex
                     /\ pc' = [pc EXCEPT ![t] = "idle"]
                     /\ local' = [local EXCEPT ![t].idx = 0, ![t].end = 0]
                     /\ ret' = Ret("global", t, e, "", "ctx", Null, FALSE, <<>>)
                ELSE /\ local' = [local EXCEPT ![t].idx = i + 1]
                     /\ ret' = Step
                     /\ UNCHANGED <<mutex, pc>>
    /\ UNCHANGED <<ctx, next_conn, next_stmt, thread_contexts, autocommit, guards, crashed>>

\* One iteration of the scan, or its end (warning, db_global). Returning
\* releases the shared lock.
global_scan(t) ==
    /\ ~crashed /\ pc[t] = "g_scan"
    /\ LET i == local[t].idx
       IN  IF i > local[t].end
           THEN /\ mutex' = [mutex EXCEPT !.readers = @ \ {t}]
                /\ pc' = [pc EXCEPT ![t] = "idle"]
                /\ local' = [local EXCEPT ![t].idx = 0, ![t].end = 0]
                /\ ret' = Ret("global", t, db_global, "", "ctx", Null, TRUE, <<>>)
           ELSE \E e \in ReadSlot(i) : \E same \in SameThread(e, t) :
                IF same
                THEN /\ mutex' = [mutex EXCEPT !.readers = @ \ {t}]
                     /\ pc' = [pc EXCEPT ![t] = "idle"]
                     /\ local' = [local EXCEPT ![t].idx = 0, ![t].end = 0]
                     /\ ret' = Ret("global", t, e, "", "ctx", Null, FALSE, <<>>)
                ELSE /\ local' = [local EXCEPT ![t].idx = i + 1]
                     /\ ret' = Step
                     /\ UNCHANGED <<mutex, pc>>
    /\ UNCHANGED <<ctx, next_conn, next_stmt, thread_contexts, autocommit, guards, crashed>>

\* ---------------------------------------- database::registerThreadContext
\* The call takes the exclusive lock (it waits until it can).
registerThreadContext_lock(t, c) ==
    /\ CanCall(t, c)
    /\ Len(thread_contexts) < MaxRegistry
    /\ CanLock(mutex)
    /\ mutex' = [mutex EXCEPT !.writer = {t}]
    /\ pc' = [pc EXCEPT ![t] = "r_push"]
    /\ local' = [local EXCEPT ![t].this = c]
    /\ ret' = Step
    /\ UNCHANGED <<ctx, next_conn, next_stmt, thread_contexts, autocommit, guards, crashed>>

\* registerThreadContext that replaces the entries of the context's thread
\* (mutant)
registerThreadContext_replace(t) ==
    /\ ~crashed /\ pc[t] = "r_push"
    /\ thread_contexts' =
          Append(SelectSeq(thread_contexts,
                           LAMBDA e : ctx[e].thread_id_ # ctx[local[t].this].thread_id_),
                 local[t].this)
    /\ mutex' = [mutex EXCEPT !.writer = @ \ {t}]
    /\ pc' = [pc EXCEPT ![t] = "idle"]
    /\ local' = [local EXCEPT ![t].this = db_global]
    /\ ret' = Ret("registerThreadContext", t, local[t].this, "", "none", Null, FALSE, <<>>)
    /\ UNCHANGED <<ctx, next_conn, next_stmt, autocommit, guards, crashed>>

\* push_back under the lock; returning unlocks.
registerThreadContext_push(t) ==
    /\ ~crashed /\ pc[t] = "r_push"
    /\ thread_contexts' = Append(thread_contexts, local[t].this)
    /\ mutex' = [mutex EXCEPT !.writer = @ \ {t}]
    /\ pc' = [pc EXCEPT ![t] = "idle"]
    /\ local' = [local EXCEPT ![t].this = db_global]
    /\ ret' = Ret("registerThreadContext", t, local[t].this, "", "none", Null, FALSE, <<>>)
    /\ UNCHANGED <<ctx, next_conn, next_stmt, autocommit, guards, crashed>>

\* -------------------------------------- database::deregisterThreadContexts
\* The call takes the exclusive lock (it waits until it can); i = size - 1.
deregisterThreadContexts_lock(t) ==
    /\ ~crashed /\ pc[t] = "idle"
    /\ CanLock(mutex)
    /\ mutex' = [mutex EXCEPT !.writer = {t}]
    /\ pc' = [pc EXCEPT ![t] = "d_loop"]
    /\ local' = [local EXCEPT ![t].idx = Len(thread_contexts)]
    /\ ret' = Step
    /\ UNCHANGED <<ctx, next_conn, next_stmt, thread_contexts, autocommit, guards, crashed>>

\* One iteration of the loop (i counts down), or its end, which unlocks.
deregisterThreadContexts_loop(t) ==
    /\ ~crashed /\ pc[t] = "d_loop"
    /\ LET i == local[t].idx
       IN  IF i < 1
           THEN /\ mutex' = [mutex EXCEPT !.writer = @ \ {t}]
                /\ pc' = [pc EXCEPT ![t] = "idle"]
                /\ local' = [local EXCEPT ![t].idx = 0]
                /\ ret' = Ret("deregisterThreadContexts", t, db_global, "", "none", Null,
                              FALSE, <<>>)
                /\ UNCHANGED <<thread_contexts, crashed>>
           ELSE \E e \in ReadSlot(i) : \E same \in SameThread(e, t) :
                IF same /\ i > Len(thread_contexts)
                THEN \* erase of an iterator past the end
                     /\ crashed' = TRUE
                     /\ ret' = Ret("deregisterThreadContexts", t, db_global, "", "crash",
                                   Null, FALSE, <<>>)
                     /\ UNCHANGED <<mutex, pc, local, thread_contexts>>
                ELSE /\ thread_contexts' = IF same THEN erase(thread_contexts, i)
                                           ELSE thread_contexts
                     /\ local' = [local EXCEPT ![t].idx = i - 1]
                     /\ ret' = Step
                     /\ UNCHANGED <<mutex, pc, crashed>>
    /\ UNCHANGED <<ctx, next_conn, next_stmt, autocommit, guards>>

\* ----------------------------------------------- the registry, all threads
NextRegistry ==
    \E t \in Threads :
       \/ (\E c \in Contexts : Context_Context(t, c, NoPath, "none")) /\ NoHistory
       \/ (\E c \in Contexts : Context_dtor(t, c, "none")) /\ NoHistory
       \/ Context_dtor_loop(t) /\ NoHistory
       \/ global_main(t) /\ NoHistory
       \/ global_lock(t) /\ NoHistory
       \/ global_scan(t) /\ NoHistory
       \/ (\E c \in Contexts : registerThreadContext_lock(t, c)) /\ NoHistory
       \/ registerThreadContext_push(t) /\ NoHistory
       \/ deregisterThreadContexts_lock(t) /\ NoHistory
       \/ deregisterThreadContexts_loop(t) /\ NoHistory

SpecRegistry == Init /\ [][NextRegistry]_vars

\* -------------------------- the registry without destruction, all threads
\* reg follows the calls that return.
NextThreads ==
    \E t \in Threads :
       \/ (\E c \in Contexts : Context_Context(t, c, NoPath, "none")) /\ NoHistory
       \/ global_main(t) /\ NoHistory
       \/ global_lock(t) /\ NoHistory
       \/ global_scan(t) /\ NoHistory
       \/ (\E c \in Contexts : registerThreadContext_lock(t, c)) /\ NoHistory
       \/ /\ registerThreadContext_push(t)
          /\ reg' = [reg EXCEPT ![t].last = {local[t].this}, ![t].dereg = FALSE]
          /\ UNCHANGED <<got, table_rows>>
       \/ deregisterThreadContexts_lock(t) /\ NoHistory
       \/ /\ deregisterThreadContexts_loop(t)
          /\ reg' = IF pc'[t] = "idle" THEN [reg EXCEPT ![t].dereg = TRUE] ELSE reg
          /\ UNCHANGED <<got, table_rows>>

SpecThreads == Init /\ [][NextThreads]_vars

\* ------------------------------- registering and looking up, worker threads
NextLookup ==
    \E t \in Workers :
       \/ (\E c \in Contexts : Context_Context(t, c, NoPath, "none")) /\ NoHistory
       \/ (\E c \in Contexts : registerThreadContext_lock(t, c)) /\ NoHistory
       \/ registerThreadContext_push(t) /\ NoHistory
       \/ global_lock(t) /\ NoHistory
       \/ global_scan(t) /\ NoHistory

SpecLookup == Init /\ [][NextLookup]_vars

\* ------------------------------------ calls that wait for the registry lock
\* The calls above take the lock in the step that enters them. Here a call is
\* entered first and waits (r_wait, d_wait, g_wait) until the lock is granted.
registerThreadContext_call(t, c) ==
    /\ CanCall(t, c)
    /\ Len(thread_contexts) < MaxRegistry
    /\ pc' = [pc EXCEPT ![t] = "r_wait"]
    /\ local' = [local EXCEPT ![t].this = c]
    /\ ret' = Step
    /\ UNCHANGED <<ctx, next_conn, next_stmt, thread_contexts, mutex, autocommit, guards,
                   crashed>>

\* std::unique_lock lock(mutex_thread_contexts) is granted
registerThreadContext_acquire(t) ==
    /\ ~crashed /\ pc[t] = "r_wait"
    /\ CanLock(mutex)
    /\ mutex' = [mutex EXCEPT !.writer = {t}]
    /\ pc' = [pc EXCEPT ![t] = "r_push"]
    /\ ret' = Step
    /\ UNCHANGED <<ctx, next_conn, next_stmt, thread_contexts, local, autocommit, guards,
                   crashed>>

deregisterThreadContexts_call(t) ==
    /\ ~crashed /\ pc[t] = "idle"
    /\ pc' = [pc EXCEPT ![t] = "d_wait"]
    /\ ret' = Step
    /\ UNCHANGED <<ctx, next_conn, next_stmt, thread_contexts, mutex, local, autocommit,
                   guards, crashed>>

\* std::unique_lock lock(mutex_thread_contexts) is granted; i = size - 1
deregisterThreadContexts_acquire(t) ==
    /\ ~crashed /\ pc[t] = "d_wait"
    /\ CanLock(mutex)
    /\ mutex' = [mutex EXCEPT !.writer = {t}]
    /\ pc' = [pc EXCEPT ![t] = "d_loop"]
    /\ local' = [local EXCEPT ![t].idx = Len(thread_contexts)]
    /\ ret' = Step
    /\ UNCHANGED <<ctx, next_conn, next_stmt, thread_contexts, autocommit, guards, crashed>>

global_call(t) ==
    /\ ~crashed /\ pc[t] = "idle"
    /\ t # MainThread
    /\ pc' = [pc EXCEPT ![t] = "g_wait"]
    /\ ret' = Step
    /\ UNCHANGED <<ctx, next_conn, next_stmt, thread_contexts, mutex, local, autocommit,
                   guards, crashed>>

\* std::shared_lock lock(mutex_thread_contexts) is granted; the range-for
\* fixes its begin and end
global_acquire(t) ==
    /\ ~crashed /\ pc[t] = "g_wait"
    /\ CanLockShared(mutex)
    /\ mutex' = [mutex EXCEPT !.readers = @ \cup {t}]
    /\ pc' = [pc EXCEPT ![t] = "g_scan"]
    /\ local' = [local EXCEPT ![t].idx = 1, ![t].end = Len(thread_contexts)]
    /\ ret' = Step
    /\ UNCHANGED <<ctx, next_conn, next_stmt, thread_contexts, autocommit, guards, crashed>>

\* Thread t enters a call (a worker constructs its one context first).
Enter(t) ==
    \/ /\ Own(t) = {}
       /\ \E c \in Contexts : Context_Context(t, c, NoPath, "none")
       /\ NoHistory
    \/ (\E c \in Own(t) : registerThreadContext_call(t, c)) /\ NoHistory
    \/ deregisterThreadContexts_call(t) /\ NoHistory
    \/ global_main(t) /\ NoHistory
    \/ global_call(t) /\ NoHistory

\* Thread t is granted the lock it waits for.
Acquire(t) ==
    \/ registerThreadContext_acquire(t) /\ NoHistory
    \/ deregisterThreadContexts_acquire(t) /\ NoHistory
    \/ global_acquire(t) /\ NoHistory

\* Thread t goes on inside the lock, up to the return that releases it.
Inside(t) ==
    \/ registerThreadContext_push(t) /\ NoHistory
    \/ deregisterThreadContexts_loop(t) /\ NoHistory
    \/ global_scan(t) /\ NoHistory

NextFair == \E t \in Threads : Enter(t) \/ Acquire(t) \/ Inside(t)

\* Fair scheduling: a thread that can go on inside the lock does, and a lock
\* request that can be granted again and again is granted. Threads are free
\* to enter calls or not.
SpecFair ==
    /\ Init /\ [][NextFair]_vars
    /\ \A t \in Threads : WF_vars(Inside(t)) /\ SF_vars(Acquire(t))

\* --------------------------- registering and deregistering, worker threads
\* reg keeps the registry as a running deregisterThreadContexts call found it.
NextDeregister ==
    \E t \in Workers :
       \/ (\E c \in Contexts : Context_Context(t, c, NoPath, "none")) /\ NoHistory
       \/ (\E c \in Contexts : registerThreadContext_lock(t, c)) /\ NoHistory
       \/ registerThreadContext_push(t) /\ NoHistory
       \/ /\ deregisterThreadContexts_lock(t)
          /\ reg' = [reg EXCEPT ![t].snap = thread_contexts]
          /\ UNCHANGED <<got, table_rows>>
       \/ /\ deregisterThreadContexts_loop(t)
          /\ reg' = IF pc'[t] = "idle" THEN [reg EXCEPT ![t].snap = <<>>] ELSE reg
          /\ UNCHANGED <<got, table_rows>>

SpecDeregister == Init /\ [][NextDeregister]_vars

\* ------------------------------------------------ N workers, each its own
\* Every worker constructs its context, registers it, and then keeps asking
\* global() for a context and running cacheQuery and the statement on what it
\* was handed.
\* The cache key a thread uses (the workers use distinct ids).
IdOf(t) == IF t = 1 THEN "q1" ELSE "q2"

\* The write flag of a worker's query: every second worker writes.
WritesOf(t) == t % 2 = 0

NextWorkers ==
    \E t \in Workers :
       \/ /\ Own(t) = {}
          /\ \E c \in Contexts, ofault \in {"none", "ro", "rw"} :
                Context_Context(t, c, "a.db", ofault)
          /\ NoHistory
       \/ /\ reg[t].last = {}
          /\ \E c \in Own(t) : registerThreadContext_lock(t, c)
          /\ NoHistory
       \/ /\ registerThreadContext_push(t)
          /\ reg' = [reg EXCEPT ![t].last = {local[t].this}, ![t].dereg = FALSE]
          /\ UNCHANGED <<got, table_rows>>
       \/ /\ reg[t].last # {}
          /\ global_lock(t)
          /\ NoHistory
       \/ /\ global_scan(t)
          /\ got' = IF ret'.op = "global" THEN [got EXCEPT ![t] = {ret'.c}] ELSE got
          /\ UNCHANGED <<reg, table_rows>>
       \/ /\ \E c \in got[t], sql \in {"s1", "bad"} :
                Context_cacheQuery(t, c, IdOf(t), sql, WritesOf(t))
          /\ NoHistory
       \/ /\ \E c \in got[t] : Statement_executeStep(t, c, IdOf(t))
          /\ NoHistory

SpecWorkers == Init /\ [][NextWorkers]_vars

\* ------------------------------------------------------------ Transaction
\* database::isTransactionActive: the connection is not in autocommit mode
isTransactionActive(conn) == ~autocommit[conn]

\* The engine runs BEGIN, COMMIT or ROLLBACK on conn: the autocommit mode
\* afterwards, and whether the command is refused (BEGIN inside a
\* transaction, COMMIT or ROLLBACK outside one).
engine(cmd, conn) ==
    IF cmd = "BEGIN"
    THEN [fault |-> ~autocommit[conn], autocommit |-> FALSE]
    ELSE [fault |-> autocommit[conn], autocommit |-> TRUE]

\* beginIfNoActiveTransaction that begins whatever the connection says (mutant)
beginAlways(conn) == <<"BEGIN">>

\* Transaction::beginIfNoActiveTransaction: the commands it sends to conn
beginIfNoActiveTransaction(conn) ==
    IF ~isTransactionActive(conn) THEN <<"BEGIN">> ELSE <<>>

\* Transaction::Transaction(connection, begin_if_none_active = true): the
\* commands the constructor sends; it begins through beginIfNoActiveTransaction.
Transaction_Transaction(conn) == beginIfNoActiveTransaction(conn)

FreeGuards == {g \in 1..MaxGuards : guards[g].state = "none"}

\* Context::beginTransaction(write): a Transaction on the read-write or the
\* read-only connection, constructed with begin-if-none-active; g is the
\* object it returns.
Context_beginTransaction(t, c, write, g) ==
    /\ CanCall(t, c)
    /\ g \in FreeGuards /\ \A h \in FreeGuards : g <= h
    /\ LET conn == IF write THEN ctx[c].connection_rw_ ELSE ctx[c].connection_ro_
       IN  IF conn = Null
           THEN \* connection->getHandle() of a null pointer
                /\ crashed' = TRUE
                /\ ret' = Ret("beginTransaction", t, c, "", "crash", g, FALSE, <<>>)
                /\ UNCHANGED <<autocommit, guards>>
           ELSE LET cmds == Transaction_Transaction(conn)
                    e    == engine("BEGIN", conn)
                IN  IF cmds = <<>>
                    THEN /\ guards' = [guards EXCEPT ![g] =
                               [state |-> "ACTIVE", connection_ |-> conn, began |-> FALSE]]
                         /\ ret' = Ret("beginTransaction", t, c, "", "guard", g, FALSE, cmds)
                         /\ UNCHANGED <<autocommit, crashed>>
                    ELSE IF e.fault
                    THEN \* the engine refuses BEGIN: the constructor throws
                         /\ ret' = Ret("beginTransaction", t, c, "", "throw", g, FALSE, cmds)
                         /\ UNCHANGED <<autocommit, guards, crashed>>
                    ELSE /\ autocommit' = [autocommit EXCEPT ![conn] = e.autocommit]
                         /\ guards' = [guards EXCEPT ![g] =
                               [state |-> "ACTIVE", connection_ |-> conn, began |-> TRUE]]
                         /\ ret' = Ret("beginTransaction", t, c, "", "guard", g, FALSE, cmds)
                         /\ UNCHANGED crashed
    /\ UNCHANGED <<ctx, next_conn, next_stmt, thread_contexts, mutex, pc, local>>

\* Transaction::commit: from ACTIVE it sends COMMIT and the guard is
\* TERMINATED; a refused COMMIT throws before that. From any other state
\* it is a contract violation, reported, and nothing is sent.
Transaction_commit(t, g) ==
    /\ ~crashed /\ pc[t] = "idle"
    /\ guards[g].state \in {"ACTIVE", "TERMINATED"}
    /\ IF guards[g].state = "ACTIVE"
       THEN LET e == engine("COMMIT", guards[g].connection_)
            IN  IF e.fault
                THEN /\ ret' = Ret("commit", t, db_global, "", "throw", g, FALSE, <<"COMMIT">>)
                     /\ UNCHANGED <<autocommit, guards>>
                ELSE /\ autocommit' = [autocommit EXCEPT ![guards[g].connection_] = e.autocommit]
                     /\ guards' = [guards EXCEPT ![g].state = "TERMINATED"]
                     /\ ret' = Ret("commit", t, db_global, "", "true", g, FALSE, <<"COMMIT">>)
       ELSE /\ ret' = Ret("commit", t, db_global, "", "violation", g, TRUE, <<>>)
            /\ UNCHANGED <<autocommit, guards>>
    /\ UNCHANGED <<ctx, next_conn, next_stmt, thread_contexts, mutex, pc, local, crashed>>

\* Discarding a guard without rolling back (mutant)
Transaction_discardOnly(t, g) ==
    /\ ~crashed /\ pc[t] = "idle"
    /\ guards[g].state \in {"ACTIVE", "TERMINATED"}
    /\ guards' = [guards EXCEPT ![g].state = "released"]
    /\ ret' = Ret("~Transaction", t, db_global, "", guards[g].state, g, FALSE, <<>>)
    /\ UNCHANGED <<ctx, next_conn, next_stmt, thread_contexts, mutex, pc, local, crashed,
                   autocommit>>

\* Transaction::~Transaction: a guard discarded while ACTIVE sends ROLLBACK
\* before it is released (a refused ROLLBACK changes nothing).
Transaction_discard(t, g) ==
    /\ ~crashed /\ pc[t] = "idle"
    /\ guards[g].state \in {"ACTIVE", "TERMINATED"}
    /\ IF guards[g].state = "ACTIVE"
       THEN LET e == engine("ROLLBACK", guards[g].connection_)
            IN  /\ autocommit' = [autocommit EXCEPT ![guards[g].connection_] = e.autocommit]
                /\ ret' = Ret("~Transaction", t, db_global, "", "ACTIVE", g, e.fault,
                              <<"ROLLBACK">>)
       ELSE /\ ret' = Ret("~Transaction", t, db_global, "", "TERMINATED", g, FALSE, <<>>)
            /\ UNCHANGED autocommit
    /\ guards' = [guards EXCEPT ![g].state = "released"]
    /\ UNCHANGED <<ctx, next_conn, next_stmt, thread_contexts, mutex, pc, local, crashed>>

\* ------------------------------------ guards of one thread on db_global
NextTransaction ==
    \E g \in 1..MaxGuards :
       \/ /\ \E write \in BOOLEAN :
                Context_beginTransaction(MainThread, db_global, write, g)
          /\ NoHistory
       \/ Transaction_commit(MainThread, g) /\ NoHistory
       \/ Transaction_discard(MainThread, g) /\ NoHistory

SpecTransaction == InitOpen /\ [][NextTransaction]_vars

\* ------------------------------------------- one context, one thread
NextContext ==
    \E id \in Ids :
       \/ /\ \E path \in Paths, cfault \in {"none", "ro", "rw"},
                ofault \in {"none", "ro", "rw"} :
                Context_open(MainThread, db_global, path, cfault, ofault)
          /\ NoHistory
       \/ /\ \E fault \in {"none", "ro", "rw"} : Context_close(MainThread, db_global, fault)
          /\ NoHistory
       \/ Context_cachedQuery(MainThread, db_global, id) /\ NoHistory
       \/ /\ \E sql \in Sqls, writes \in BOOLEAN :
                Context_cacheQuery(MainThread, db_global, id, sql, writes)
          /\ NoHistory
       \/ Statement_executeStep(MainThread, db_global, id) /\ NoHistory
       \/ /\ \E sql \in Sqls, rows \in 0..1 :
                Context_exec(MainThread, db_global, sql, rows)
          /\ NoHistory

SpecContext == Init /\ [][NextContext]_vars

\* ------------------------------------ rowIdExists on a table of any content
\* After database::init(), with the table filled in any way.
InitRows ==
    /\ ctx = [c \in Contexts |->
                IF c = db_global
                THEN open(NewContext(MainThread), "a.db", "none", "none", 1).cx
                ELSE NoContext("unborn")]
    /\ next_conn = 3
    /\ next_stmt = 1
    /\ thread_contexts = <<>>
    /\ mutex = [writer |-> {}, readers |-> {}]
    /\ pc = [t \in Threads |-> "idle"]
    /\ local = [t \in Threads |-> NoLocal]
    /\ ret = Step
    /\ autocommit = [k \in 1..(2 * MaxOpens) |-> TRUE]
    /\ guards = [g \in 1..MaxGuards |-> NoGuard]
    /\ crashed = FALSE
    /\ reg = [t \in Threads |-> [last |-> {}, dereg |-> FALSE, snap |-> <<>>]]
    /\ got = [t \in Threads |-> {}]
    /\ table_rows \in Tables

NextRows ==
    \/ (\E id \in IdValues : Context_rowIdExists(MainThread, db_global, id)) /\ NoHistory
    \/ /\ \E fault \in {"none", "ro", "rw"} : Context_close(MainThread, db_global, fault)
       /\ NoHistory

SpecRows == InitRows /\ [][NextRows]_vars

\* ------------------------------------------------------ the whole program
Next ==
    \/ NextRows
    \/ NextContext
    \/ NextRegistry
    \/ NextThreads
    \/ NextLookup
    \/ NextFair
    \/ NextDeregister
    \/ NextWorkers
    \/ NextTransaction

Spec == Init /\ [][Next]_vars

\* ================================================================ claims

\* C1: in every reachable state of a context (after any open, close,
\* cacheQuery and exec calls, failed opens included) the read-only and the
\* read-write connection handles are both present or both absent.
C1_BothOrNeither ==
    \A c \in Contexts : (ctx[c].connection_ro_ = Null) <=> (ctx[c].connection_rw_ = Null)

\* C2: while a destructor removes its entries from the registry it holds the
\* lock in write mode, no lookup scan and no register/deregister call is
\* inside the registry at that time, and no lookup returns a context whose
\* destruction has started.
C2_DestructionExclusive ==
    /\ \A t \in Threads :
          pc[t] = "x_loop" =>
             /\ mutex.writer = {t}
             /\ \A u \in Threads \ {t} : pc[u] \notin {"g_scan", "r_push", "d_loop"}
    /\ ret.op = "global" => ctx[ret.c].life = "alive"

\* C3: for a worker thread T and a context C, once registerThreadContext(C)
\* has returned on T, global() on T returns C; once T has then called
\* deregisterThreadContexts(), global() on T returns db_global and logs a
\* warning.
C3_RegisterThenGlobal ==
    (ret.op = "global" /\ ret.t \in Workers /\ reg[ret.t].last # {}) =>
       IF reg[ret.t].dereg
       THEN ret.c = db_global /\ ret.warn
       ELSE ret.c \in reg[ret.t].last

\* C4: when every worker constructs and registers its own context and then
\* keeps calling global(), cacheQuery and the statement, each thread is only
\* ever handed its own context and statement handles it created itself.
C4_OwnContextOwnHandles ==
    /\ \A t \in Workers : got[t] # {} => got[t] \subseteq Own(t) /\ got[t] = reg[t].last
    /\ \A c \in Contexts : \A id \in DOMAIN ctx[c].cached_queries_ :
          ctx[c].cached_queries_[id].creator = ctx[c].thread_id_
    /\ (ret.op \in {"cacheQuery", "executeStep"} /\ ret.result = "handle") =>
          /\ ret.id \in DOMAIN ctx[ret.c].cached_queries_
          /\ ctx[ret.c].cached_queries_[ret.id].handle = ret.val
          /\ ctx[ret.c].cached_queries_[ret.id].creator = ret.t

\* C4 witness: worker 2 runs a statement it compiled while worker 1 holds a
\* cached statement of its own.
C4_Witness ==
    /\ ret.op = "executeStep" /\ ret.t = 2
    /\ \E c \in Own(1) : ctx[c].cached_queries_ # EmptyCache
    /\ got[1] # {} /\ got[2] # {}

\* C5: when releasing a connection faults during close(), close() returns
\* failure and the context is still open: both handles present, path kept.
C5_FailedCloseStaysOpen ==
    (ret.op = "close" /\ ret.result = "false") =>
       /\ ctx[ret.c].connection_ro_ # Null
       /\ ctx[ret.c].connection_rw_ # Null
       /\ ctx[ret.c].file_path_ # NoPath

\* C6: the cache never holds a statement of released connections: a closed
\* context has an empty cache, every cached statement is compiled against one
\* of the context's present connections, the cache is empty when close or
\* open returns, and cachedQuery returns none exactly for the ids not cached.
C6_CacheNeverStale ==
    /\ \A c \in Contexts :
          /\ ctx[c].connection_ro_ = Null => ctx[c].cached_queries_ = EmptyCache
          /\ \A id \in DOMAIN ctx[c].cached_queries_ :
                ctx[c].cached_queries_[id].db \in
                   {ctx[c].connection_ro_, ctx[c].connection_rw_} \ {Null}
    /\ ret.op \in {"close", "open"} => ctx[ret.c].cached_queries_ = EmptyCache
    /\ ret.op = "cachedQuery" =>
          IF ret.result = "none"
          THEN ret.id \notin DOMAIN ctx[ret.c].cached_queries_
          ELSE /\ ret.id \in DOMAIN ctx[ret.c].cached_queries_
               /\ ctx[ret.c].cached_queries_[ret.id].handle = ret.val

\* C6 witness: cachedQuery returns none on a context that was re-opened
\* after statements had been cached.
C6_Witness ==
    /\ ret.op = "cachedQuery" /\ ret.result = "none"
    /\ next_stmt > 1 /\ next_conn > 3
    /\ ctx[ret.c].connection_ro_ # Null

\* C7: a cacheQuery that returns a statement returns the handle stored under
\* the id, in its reset (not executed) state; when the id was cached before
\* the call, that is the handle it was cached under.
C7_SameHandleReset ==
    [][(ret'.op = "cacheQuery" /\ ret'.result = "handle") =>
          /\ ret'.id \in DOMAIN ctx'[ret'.c].cached_queries_
          /\ ctx'[ret'.c].cached_queries_[ret'.id].handle = ret'.val
          /\ ~ctx'[ret'.c].cached_queries_[ret'.id].executed
          /\ ret'.id \in DOMAIN ctx[ret'.c].cached_queries_ =>
                ret'.val = ctx[ret'.c].cached_queries_[ret'.id].handle]_vars

\* C7 witness: cacheQuery returns a handle that is not the newest one, that
\* is, a statement cached by an earlier call.
C7_Witness ==
    /\ ret.op = "cacheQuery" /\ ret.result = "handle"
    /\ ret.val < next_stmt - 1

C9_DiscardRollsBack ==
    (ret.op = "~Transaction" /\ ret.result = "ACTIVE") =>
       /\ ret.sent = <<"ROLLBACK">>
       /\ ~isTransactionActive(guards[ret.val].connection_)

\* C9 witness: a guard that joined another guard's transaction is discarded
\* while ACTIVE.
C9_Witness ==
    /\ ret.op = "~Transaction" /\ ret.result = "ACTIVE"
    /\ ~guards[ret.val].began
    /\ ~ret.warn

\* C10: while registerThreadContext or deregisterThreadContexts is inside the
\* registry, no other register/deregister call and no lookup scan is.
C10_RegistryLock ==
    \A t \in Threads : \A u \in Threads \ {t} :
       pc[t] \in {"r_push", "d_loop"} => pc[u] \notin {"r_push", "d_loop", "g_scan"}

\* C10 witness: two lookups scan the registry at the same time.
C10_Witness ==
    \E t \in Threads : \E u \in Threads \ {t} :
       /\ pc[t] = "g_scan" /\ pc[u] = "g_scan"
       /\ Len(thread_contexts) > 0

\* C11: an open whose close of the existing connections failed (the error was
\* logged) returns false, creates no connection and leaves the file path as
\* it was: the context holds no handle it did not hold before.
C11_FailedCloseOpensNothing ==
    [][(ret'.op = "open" /\ ret'.warn) =>
          /\ ret'.result = "false"
          /\ next_conn' = next_conn
          /\ ctx'[ret'.c].file_path_ = ctx[ret'.c].file_path_
          /\ ctx'[ret'.c].connection_ro_ \in {Null, ctx[ret'.c].connection_ro_}
          /\ ctx'[ret'.c].connection_rw_ \in {Null, ctx[ret'.c].connection_rw_}]_vars

\* C11 witness: open has returned false on a context that was open on a file.
C11_Witness ==
    /\ ret.op = "open" /\ ret.result = "false" /\ ret.warn
    /\ ctx[ret.c].file_path_ # NoPath
    /\ next_conn > 1

\* C12: global() on the main thread returns db_global with no warning, in one
\* step that leaves the registry lock as it is; the main thread is never
\* among the lock's readers and never inside the scan.
C12_MainGetsGlobalNoLock ==
    [][/\ MainThread \notin mutex'.readers
       /\ pc'[MainThread] # "g_scan"
       /\ (ret'.op = "global" /\ ret'.t = MainThread) =>
             /\ ret'.c = db_global
             /\ ~ret'.warn
             /\ mutex' = mutex
             /\ thread_contexts' = thread_contexts]_vars

\* C12 witness: global() has returned on the main thread while another thread
\* holds the lock in write mode and the registry holds a context that was
\* constructed on the main thread.
C12_Witness ==
    /\ ret.op = "global" /\ ret.t = MainThread
    /\ mutex.writer # {} /\ MainThread \notin mutex.writer
    /\ \E i \in 1..Len(thread_contexts) :
          /\ ctx[thread_contexts[i]].life = "alive"
          /\ ctx[thread_contexts[i]].thread_id_ = MainThread

\* C13: exec on a context whose read-write connection is absent returns 0
\* without an error, sends nothing to the engine and changes nothing of the
\* context (connections, file path, statement cache).
C13_ExecWithoutRwIsNoOp ==
    [][(ret'.op = "exec" /\ ctx[ret'.c].connection_rw_ = Null) =>
          /\ ret'.result = "count" /\ ret'.val = 0
          /\ ~ret'.warn
          /\ ret'.sent = <<>>
          /\ ctx' = ctx
          /\ ~crashed']_vars

\* C13 witness: exec has returned on a context that has a read-only
\* connection and a cached statement but no read-write connection.
C13_Witness ==
    /\ ret.op = "exec" /\ ret.val = 0 /\ ret.sent = <<>>
    /\ ctx[ret.c].connection_rw_ = Null
    /\ ctx[ret.c].connection_ro_ # Null
    /\ ctx[ret.c].cached_queries_ # EmptyCache

\* C14: on a context that has its read-only connection, rowIdExists returns
\* true when some row of the table holds the id in the id column and false
\* when none does, for every table and every id, and it does not fail.
C14_RowExistsIffRowHolds ==
    (ret.op = "rowIdExists" /\ ctx[ret.c].connection_ro_ # Null) =>
       /\ ~crashed
       /\ ret.result \in {"true", "false"}
       /\ ret.result = "true" <=>
             \E i \in 1..Len(table_rows) :
                table_rows[i] # SqlNull /\ table_rows[i] = SqlInt(ret.val)

\* C14 witness: rowIdExists has found a negative id of two digits in a full
\* table that also holds a row without an id.
C14_Witness ==
    /\ ret.op = "rowIdExists" /\ ret.result = "true"
    /\ ret.val < -9
    /\ Len(table_rows) = MaxRows
    /\ \E i \in 1..Len(table_rows) : table_rows[i] = SqlNull

\* C15: the commands the guards of one thread send to a connection are well
\* formed: BEGIN is sent only while no transaction is active on the
\* connection, COMMIT and ROLLBACK only while one is.
C15_WellFormedCommands ==
    [][/\ (ret'.op = "beginTransaction" /\ ret'.sent # <<>>) =>
             /\ ret'.result = "guard"
             /\ ~isTransactionActive(guards'[ret'.val].connection_)
       /\ (ret'.op \in {"commit", "~Transaction"} /\ ret'.sent # <<>>) =>
             isTransactionActive(guards[ret'.val].connection_)]_vars

\* The positions of the registry that hold a context of thread t.
EntriesOf(v, t) == {i \in 1..Len(v) : ctx[v[i]].thread_id_ = t}

C18_BindingFixedAtCreation ==
    [][/\ \A c \in Contexts :
             \A id \in DOMAIN ctx[c].cached_queries_ \cap DOMAIN ctx'[c].cached_queries_ :
                /\ ctx'[c].cached_queries_[id].handle = ctx[c].cached_queries_[id].handle
                /\ ctx'[c].cached_queries_[id].sql = ctx[c].cached_queries_[id].sql
                /\ ctx'[c].cached_queries_[id].db = ctx[c].cached_queries_[id].db
       /\ (ret'.op = "cacheQuery" /\ ret'.result = "handle") =>
             LET c   == ret'.c
                 new == ctx'[c].cached_queries_[ret'.id]
             IN  /\ ret'.val = new.handle
                 /\ ret'.id \notin DOMAIN ctx[c].cached_queries_ =>
                       /\ new.sql = ret'.arg[1]
                       /\ new.db # Null
                       /\ new.db = IF ret'.arg[2] THEN ctx[c].connection_rw_
                                                  ELSE ctx[c].connection_ro_]_vars

\* C18 witness: cacheQuery was given a write flag and an sql for an id cached
\* with another sql against the read-only connection, and has returned the
\* cached statement.
C18_Witness ==
    /\ ret.op = "cacheQuery" /\ ret.result = "handle"
    /\ ret.arg = <<"s2", TRUE>>
    /\ ctx[ret.c].cached_queries_[ret.id].sql = "s1"
    /\ ctx[ret.c].cached_queries_[ret.id].db = ctx[ret.c].connection_ro_
    /\ ctx[ret.c].cached_queries_[ret.id].handle = ret.val

\* C19: a cacheQuery that returns no statement leaves the cache and the
\* engine's statements as they were: on a context without connections it
\* returns none, and when the sql does not compile the engine's error leaves
\* the call and nothing is stored under the id; a cacheQuery with the same id
\* and valid sql right after a failed one compiles and stores a new statement.
C19_FailedCacheQueryStoresNothing ==
    [][ret'.op = "cacheQuery" =>
          LET c      == ret'.c
              cached == ret'.id \in DOMAIN ctx[c].cached_queries_
              db     == statementDb(ctx[c], ret'.arg[2])
          IN  /\ ret'.result # "handle" =>
                    /\ ctx' = ctx
                    /\ next_stmt' = next_stmt
                    /\ ~cached
              /\ (~cached /\ ctx[c].connection_ro_ = Null) => ret'.result = "none"
              /\ ret'.result = "throw" =>
                    /\ ret'.arg[1] = "bad"
                    /\ ret'.id \notin DOMAIN ctx'[c].cached_queries_
              /\ (/\ ret.op = "cacheQuery" /\ ret.result \in {"none", "throw"}
                  /\ ret.c = c /\ ret.id = ret'.id
                  /\ ret'.arg[1] # "bad" /\ ctx[c].connection_ro_ # Null /\ db # Null) =>
                    /\ ret'.result = "handle"
                    /\ ret'.val = next_stmt
                    /\ ctx'[c].cached_queries_[ret'.id].handle = next_stmt
                    /\ ctx'[c].cached_queries_[ret'.id].sql = ret'.arg[1]]_vars

\* C19 witness: compiling has failed for an id while another id is cached;
\* the cache holds the other id only.
C19_Witness ==
    /\ ret.op = "cacheQuery" /\ ret.result = "throw"
    /\ ctx[ret.c].cached_queries_ # EmptyCache
    /\ ret.id \notin DOMAIN ctx[ret.c].cached_queries_

\* The threads that hold the registry lock.
Holders == mutex.writer \cup mutex.readers

\* C20 (as claimed): under fair scheduling every call of
\* registerThreadContext, deregisterThreadContexts and global() returns, and
\* no thread holds the registry lock once its call has returned.
C20_EveryCallReturns ==
    /\ [](\A t \in Threads : pc[t] = "idle" => t \notin Holders)
    /\ \A t \in Threads : (pc[t] # "idle") ~> (pc[t] = "idle")

\* The positions of a thread inside the lock, and waiting for it.
InsideLock  == {"r_push", "d_loop", "g_scan"}
WaitingLock == {"r_wait", "d_wait", "g_wait"}

\* C20 (amended): no thread holds the registry lock once its call has
\* returned, the return from inside the scan included; there is no deadlock:
\* while a call waits, the lock can be granted to it or a thread inside the
\* lock can go on; every call that has the lock returns, and every global()
\* returns.
C20_LockReleasedNoDeadlock ==
    /\ [](\A t \in Threads : pc[t] \in InsideLock <=> t \in Holders)
    /\ [](\A t \in Threads :
            pc[t] \in WaitingLock =>
               \/ IF pc[t] = "g_wait" THEN CanLockShared(mutex) ELSE CanLock(mutex)
               \/ \E u \in Holders : pc[u] \in InsideLock)
    /\ \A t \in Threads : (pc[t] \in InsideLock) ~> (pc[t] = "idle")
    /\ \A t \in Threads : (pc[t] = "g_wait") ~> (pc[t] = "idle")

\* C20 witness: a lookup has returned a registered context from inside the
\* scan and holds no lock, while another lookup scans and a third thread
\* waits for the lock in write mode.
C20_Witness ==
    /\ ret.op = "global" /\ ~ret.warn /\ ret.c # db_global
    /\ pc[ret.t] = "idle" /\ ret.t \notin Holders
    /\ \E u \in Threads : pc[u] = "g_scan"
    /\ \E u \in Threads : pc[u] \in {"r_wait", "d_wait"}

====
